---- MODULE Spec2Model ----
(***************************************************************************)
(* Case lifecycle of the crime-reporting server: the Complaint document    *)
(* with its status history (models/Complaint.js), the complaint,           *)
(* investigation and staff routes that mutate it, and the SLA monitor.     *)
(* Time is counted in whole hours.                                         *)
(***************************************************************************)
EXTENDS Integers, Sequences, FiniteSets, TLC

\* ------------------------------------------------------------------ bounds

MaxCases == 2
MaxHist == 4
MaxClock == 25
MaxInvestigations == 1
MaxEvidence == 2

\* ------------------------------------------------------- program constants

Statuses ==
  {"Filed", "Assigned", "Under Investigation", "Evidence Collected",
   "Suspect Identified", "Report Submitted", "Completed", "Closed", "Rejected"}

\* the statuses the add-investigation validator accepts (no 'Rejected')
InvestigationStatuses == Statuses \ {"Rejected"}

\* the statuses the specification calls terminal
TerminalStatuses == {"Completed", "Closed", "Rejected"}

\* status: { $in: [...] } of performSLACheck
MonitoredStatuses ==
  {"Filed", "Assigned", "Under Investigation", "Evidence Collected"}

\* status: { $nin: [...] } of DELETE /staff/:staffId
DeleteStaffDoneStatuses == {"Completed", "Closed"}

SLA_THRESHOLDS ==
  [s \in MonitoredStatuses |->
     CASE s = "Filed" -> 24
       [] s = "Assigned" -> 72
       [] s = "Under Investigation" -> 168
       [] s = "Evidence Collected" -> 24]

\* paths of complaintSchema (strict mode: nothing else is written)
ComplaintSchemaPaths ==
  {"caseId", "userId", "evidenceFiles", "status", "assignedStaff",
   "assignmentDate", "statusHistory"}

\* paths of statusHistorySchema
StatusHistoryPaths == {"status", "date", "updatedBy", "notes"}

\* ------------------------------------------------------------------ inputs

UserIds == {"admin1", "staff1", "staff2", "user1"}

\* an id no account has
NoSuchUser == "nobody"

\* a field that is not set (undefined / null)
Null == "null"

\* a note that was not supplied
NoNote == <<>>

RoleOf(u) ==
  CASE u = "admin1" -> "admin"
    [] u \in {"staff1", "staff2"} -> "staff"
    [] OTHER -> "user"

StaffIdOf(u) ==
  CASE u = "staff1" -> "STF-001"
    [] u = "staff2" -> "STF-002"
    [] OTHER -> Null

\* the initial statuses of the demo complaints
SeedStatuses == {"Filed", "Assigned", "Under Investigation"}

\* status values the requests of the model carry
StatusInputs == {"Under Investigation", "Completed", "Rejected"}

InvestigationStatusInputs == {"", "Under Investigation"}

NoteInputs == {<<"text", "n1">>}

TickHours == {23, 25}

\* the requests that run next to the SLA monitor
SLAStaffInputs == {"staff1"}
SLAStatusInputs == {"Evidence Collected", "Completed"}

FilerInputs == {"user1"}

\* the accounts whose tokens the requests carry
ActorInputs == {"admin1", "staff1"}

FileInputs == {<<"photo.jpg">>}

\* the files of an evidence upload
EvidenceUploadInputs == {<<>>, <<"scan.pdf">>}

\* the evidence items a request may name, by their place in the list
EvidenceIdInputs == {1, 2}

\* the accounts an assignment or a staff request may name
StaffIdInputs == {"staff1", "user1", NoSuchUser}

\* the accounts a staff-management request may name
StaffTargetInputs == {"staff1", "user1", NoSuchUser}

\* the accounts PUT /staff/:staffId requests name
StaffUpdateTargets == {"staff1", NoSuchUser}

\* request bodies of PUT /staff/:staffId
StaffUpdateInputs == {[status |-> "inactive"], [status |-> "active"]}

\* the requests the server handles at the same time
Procs == {"r1", "r2"}

\* a request slot with no request under way
Idle == [op |-> "none"]

VARIABLES
  users,          \* User collection: id -> document
  complaints,     \* Complaint collection, in insertion order (_id = index)
  investigations, \* Investigation collection, in insertion order
  now,            \* the clock, in hours
  slaPc,          \* performSLACheck: "idle" or "fetched"
  slaResults,     \* slaResults of the running sweep
  overdueCases,   \* overdueCases of the running sweep
  inflight        \* the requests under way: what each has read so far

vars ==
  <<users, complaints, investigations, now, slaPc, slaResults, overdueCases,
    inflight>>

\* ----------------------------------------------------------------- helpers

Last(s) == s[Len(s)]

Range(s) == {s[i] : i \in 1..Len(s)}

Has(doc, f) == f \in DOMAIN doc

\* the record r restricted to the fields in paths
Restrict(r, paths) == [f \in (DOMAIN r) \cap paths |-> r[f]]

\* $set of the fields of upd on doc
ApplySet(doc, upd) ==
  [f \in (DOMAIN doc) \cup (DOMAIN upd) |->
     IF f \in DOMAIN upd THEN upd[f] ELSE doc[f]]

RECURSIVE HistoryTotal(_)
\* the number of status history entries stored, over all cases
HistoryTotal(coll) ==
  IF coll = <<>> THEN 0
  ELSE Len(Head(coll).statusHistory) + HistoryTotal(Tail(coll))

\* today.getFullYear() + month + day: the calendar day of the clock
DateStr(t) == t \div 24

\* ------------------------------------------------------------- middleware

\* authenticate trusting the token alone, without the look at user.status
authenticateTokenOnly(actor) ==
  IF actor \notin DOMAIN users THEN 401 ELSE 0

\* authenticate: 0 when the request goes on, else the status code it ends with
authenticate(actor) ==
  IF actor \notin DOMAIN users THEN 401
  ELSE IF users[actor].status # "active" THEN 403
  ELSE 0

\* authorize('a', 'b'): roles.includes(req.user.role)
authorize(roles, actor) == users[actor].role \in roles

\* the status code the middleware chain ends with, 0 when the handler runs
Gate(actor, roles) ==
  IF authenticate(actor) # 0 THEN authenticate(actor)
  ELSE IF ~authorize(roles, actor) THEN 403
  ELSE 0

AllRoles == {"user", "staff", "admin"}

\* ------------------------------------------------------ Complaint schema

\* an object pushed on statusHistory, cast by statusHistorySchema at time t:
\* paths outside the schema are dropped, date defaults to Date.now
CastEntry(obj, t) ==
  [status |-> obj.status,
   date |-> IF Has(obj, "date") THEN obj.date ELSE t,
   updatedBy |-> IF Has(obj, "updatedBy") THEN obj.updatedBy ELSE Null,
   notes |-> IF Has(obj, "notes") THEN obj.notes ELSE NoNote]

\* statusHistory.unshift(obj) in place of push: the entry goes to the front
PushHistoryAtFront(doc, obj, t) ==
  [doc EXCEPT !.statusHistory = <<CastEntry(obj, t)>> \o @]

\* statusHistory.push(obj)
PushHistory(doc, obj, t) ==
  [doc EXCEPT !.statusHistory = Append(@, CastEntry(obj, t))]

\* new Complaint({...}): status defaults to 'Filed', no caseId yet
NewComplaint(userId, status, files) ==
  [userId |-> userId, evidenceFiles |-> files, status |-> status,
   assignedStaff |-> Null, statusHistory |-> <<>>]

MaxOf(S) == CHOOSE x \in S : \A y \in S : y <= x

\* the width of String(nextNumber).padStart(4, '0')
CaseNumberWidth == 4

RECURSIVE Digits(_)
\* String(n): the decimal digits of n
Digits(n) == IF n < 10 THEN <<n>> ELSE Append(Digits(n \div 10), n % 10)

RECURSIVE PadStart(_, _)
\* s.padStart(width, '0')
PadStart(s, width) ==
  IF Len(s) >= width THEN s ELSE PadStart(<<0>> \o s, width)

RECURSIVE ParseInt(_)
\* parseInt(s) of a string of digits
ParseInt(s) ==
  IF s = <<>> THEN 0
  ELSE 10 * ParseInt(SubSeq(s, 1, Len(s) - 1)) + s[Len(s)]

\* `CASE-${dateStr}-${String(n).padStart(4, '0')}`: the day and the digits
FormatCaseId(dateStr, n) ==
  [date |-> dateStr, num |-> PadStart(Digits(n), CaseNumberWidth)]

\* the case numbers that match /^CASE-dateStr-/, as their digit strings
NumbersOfDay(coll, d) ==
  {coll[i].caseId.num : i \in {j \in 1..Len(coll) : coll[j].caseId.date = d}}

RECURSIVE GreatestString(_)
\* sort({ caseId: -1 }), first document: the greatest of the digit strings in
\* string order, in which a longer string does not rank above a shorter one
\* unless its characters do
GreatestString(S) ==
  LET rest == S \ {<<>>}
      c == MaxOf({s[1] : s \in rest})
  IN IF rest = {} THEN <<>>
     ELSE <<c>> \o GreatestString({Tail(s) : s \in {x \in rest : x[1] = c}})

\* first pre('save') hook, first half: generate the case number
GenerateCaseId(doc, coll, t) ==
  IF Has(doc, "caseId") THEN doc
  ELSE LET nums == NumbersOfDay(coll, DateStr(t))
           nextNumber == IF nums = {} THEN 1
                         ELSE ParseInt(GreatestString(nums)) + 1
       IN ApplySet(doc, [caseId |-> FormatCaseId(DateStr(t), nextNumber)])

\* this.isModified(path): the value differs from the one loaded
isModified(doc, orig, path) == doc[path] # orig[path]

\* first pre('save') hook, second half: isModified('status') && !isNew
StatusChangeHook(doc, orig, isNew, t) ==
  IF isModified(doc, orig, "status") /\ ~isNew
  THEN PushHistory(doc, [status |-> doc.status, date |-> t,
                         updatedBy |-> doc.assignedStaff], t)
  ELSE doc

\* the initial entry written with the default status
InitialHistoryHookDefaultStatus(doc, isNew, t) ==
  IF isNew /\ Len(doc.statusHistory) = 0
  THEN PushHistory(doc, [status |-> "Filed", date |-> t], t)
  ELSE doc

\* second pre('save') hook: the initial history entry of a new complaint
InitialHistoryHook(doc, isNew, t) ==
  IF isNew /\ Len(doc.statusHistory) = 0
  THEN PushHistory(doc, [status |-> doc.status, date |-> t], t)
  ELSE doc

\* the document save() writes: both hooks, in the order they are registered;
\* orig is the document as it was loaded (the document itself when new)
PreSave(doc, orig, isNew, coll, t) ==
  InitialHistoryHook(
    StatusChangeHook(GenerateCaseId(doc, coll, t), orig, isNew, t),
    isNew, t)

\* Complaint.findOne({ caseId }): the index of the document, 0 when none
FindOne(coll, caseId) ==
  IF \E i \in 1..Len(coll) : coll[i].caseId = caseId
  THEN CHOOSE i \in 1..Len(coll) :
         /\ coll[i].caseId = caseId
         /\ \A j \in 1..(i - 1) : coll[j].caseId # caseId
  ELSE 0

\* the case numbers a request may name: those issued, and one never issued
CaseIdInputs ==
  {complaints[i].caseId : i \in 1..Len(complaints)} \cup {[date |-> 0, num |-> <<0, 0, 0, 0>>]}

\* -------------------------------------------------------------------- Init

Init ==
  /\ users = [u \in UserIds |->
               [role |-> RoleOf(u), status |-> "active", name |-> u,
                staffId |-> StaffIdOf(u)]]
  /\ complaints = <<>>
  /\ investigations = <<>>
  /\ now = 0
  /\ slaPc = "idle"
  /\ slaResults = <<>>
  /\ overdueCases = <<>>
  /\ inflight = [p \in Procs |-> Idle]

\* ----------------------------------------------------------------- actions
\* Each route has an operator giving the status code of its response, an
\* operator giving the collection after the request, and an action: the request
\* that gets past the handler's early returns. A request that ends at an early
\* return changes nothing, and the result operator says so.

\* time passes, in steps of hours: a sweep takes no time on that scale
Tick(h) ==
  /\ slaPc = "idle"
  /\ now + h <= MaxClock
  /\ now' = now + h
  /\ UNCHANGED <<users, complaints, investigations, slaPc, slaResults, overdueCases, inflight>>

\* the unique index on caseId: the number of doc is stored already (E11000)
DuplicateKey(coll, doc) == \E i \in 1..Len(coll) : coll[i].caseId = doc.caseId

\* why save() of the new document doc rejects, "none" when it does not:
\* validation (userId is required) runs before the pre('save') hooks, the
\* unique index is looked at when the document is inserted
SaveError(doc, coll, t) ==
  IF doc.userId = Null THEN "ValidationError"
  ELSE IF DuplicateKey(coll, PreSave(doc, doc, TRUE, coll, t)) THEN "DuplicateKey"
  ELSE "none"

\* save() of the new document doc: the collection after it
SaveNew(doc, coll, t) ==
  IF SaveError(doc, coll, t) = "none"
  THEN Append(coll, PreSave(doc, doc, TRUE, coll, t))
  ELSE coll

\* POST /complaints/file: the status code of the response
FileCode(actor) ==
  IF authenticate(actor) # 0 THEN authenticate(actor)
  ELSE IF SaveError(NewComplaint(actor, "Filed", <<>>), complaints, now) # "none"
  THEN 500
  ELSE 201

\* POST /complaints/file: the Complaint collection after the request
FileResult(actor, files) ==
  IF authenticate(actor) = 0
  THEN SaveNew(NewComplaint(actor, "Filed", files), complaints, now)
  ELSE complaints

\* POST /complaints/file
FileComplaint(actor, files) ==
  /\ FileCode(actor) = 201
  /\ Len(complaints) < MaxCases
  /\ HistoryTotal(complaints) < MaxHist
  /\ complaints' = FileResult(actor, files)
  /\ UNCHANGED <<users, investigations, now, slaPc, slaResults, overdueCases, inflight>>

\* seedDatabase, one demo complaint: the Complaint collection after its save()
SeedResult(status) ==
  SaveNew(NewComplaint("user1", status, <<>>), complaints, now)

\* seedDatabase: one demo complaint, created for the citizen with its status
SeedComplaint(status) ==
  /\ Len(complaints) < MaxCases
  /\ HistoryTotal(complaints) < MaxHist
  /\ complaints' = SeedResult(status)
  /\ UNCHANGED <<users, investigations, now, slaPc, slaResults, overdueCases, inflight>>

\* the check on the target account without the look at its status
StaffOkAnyStatus(staffId) ==
  /\ staffId \in DOMAIN users
  /\ users[staffId].role = "staff"

\* the check of PATCH /complaints/:caseId/assign on the target account
StaffOk(staffId) ==
  /\ staffId \in DOMAIN users
  /\ users[staffId].role = "staff"
  /\ users[staffId].status = "active"

\* PATCH /complaints/:caseId/assign: the status code of the response
AssignCode(actor, caseId, staffId) ==
  IF Gate(actor, {"admin"}) # 0 THEN Gate(actor, {"admin"})
  ELSE IF FindOne(complaints, caseId) = 0 THEN 404
  ELSE IF ~StaffOk(staffId) THEN 400
  ELSE 200

\* PATCH /complaints/:caseId/assign: the document handed to save()
AssignedDoc(complaint, actor, staffId) ==
  PushHistory(
    ApplySet([complaint EXCEPT !.assignedStaff = staffId, !.status = "Assigned"],
             [assignmentDate |-> now]),
    [status |-> "Assigned", date |-> now, updatedBy |-> actor,
     notes |-> <<"Assigned to", users[staffId].name, users[staffId].staffId>>],
    now)

\* PATCH /complaints/:caseId/assign: the Complaint collection after the request
AssignResult(actor, caseId, staffId) ==
  LET i == FindOne(complaints, caseId)
  IN IF AssignCode(actor, caseId, staffId) = 200
     THEN [complaints EXCEPT ![i] =
             PreSave(AssignedDoc(@, actor, staffId), @, FALSE, complaints, now)]
     ELSE complaints

\* PATCH /complaints/:caseId/assign
AssignComplaint(actor, caseId, staffId) ==
  LET saved == AssignResult(actor, caseId, staffId)
  IN /\ AssignCode(actor, caseId, staffId) = 200
     /\ HistoryTotal(saved) <= MaxHist
     /\ complaints' = saved
     /\ UNCHANGED <<users, investigations, now, slaPc, slaResults, overdueCases, inflight>>

\* the permission check of the status and investigation routes
MayUpdate(complaint, actor) ==
  \/ complaint.assignedStaff = actor
  \/ users[actor].role = "admin"

\* a recorder that enforces a transition table: a case in a terminal status
\* takes no further status
StatusCodeTerminalAbsorbing(actor, caseId, status) ==
  IF Gate(actor, {"staff", "admin"}) # 0 THEN Gate(actor, {"staff", "admin"})
  ELSE IF status \notin Statuses THEN 400
  ELSE IF FindOne(complaints, caseId) = 0 THEN 404
  ELSE IF ~MayUpdate(complaints[FindOne(complaints, caseId)], actor) THEN 403
  ELSE IF complaints[FindOne(complaints, caseId)].status \in TerminalStatuses
  THEN 400
  ELSE 200

\* PATCH /complaints/:caseId/status: the status code of the response
StatusCode(actor, caseId, status) ==
  IF Gate(actor, {"staff", "admin"}) # 0 THEN Gate(actor, {"staff", "admin"})
  ELSE IF status \notin Statuses THEN 400
  ELSE IF FindOne(complaints, caseId) = 0 THEN 404
  ELSE IF ~MayUpdate(complaints[FindOne(complaints, caseId)], actor) THEN 403
  ELSE 200

\* PATCH /complaints/:caseId/status: the document handed to save()
StatusDoc(complaint, actor, status, notes) ==
  PushHistory([complaint EXCEPT !.status = status],
              [status |-> status, date |-> now, updatedBy |-> actor,
               notes |-> notes], now)

\* PATCH /complaints/:caseId/status: the Complaint collection after the request
StatusResult(actor, caseId, status, notes) ==
  LET i == FindOne(complaints, caseId)
  IN IF StatusCode(actor, caseId, status) = 200
     THEN [complaints EXCEPT ![i] =
             PreSave(StatusDoc(@, actor, status, notes), @, FALSE, complaints, now)]
     ELSE complaints

\* PATCH /complaints/:caseId/status
UpdateStatus(actor, caseId, status, notes) ==
  LET saved == StatusResult(actor, caseId, status, notes)
  IN /\ StatusCode(actor, caseId, status) = 200
     /\ HistoryTotal(saved) <= MaxHist
     /\ complaints' = saved
     /\ UNCHANGED <<users, investigations, now, slaPc, slaResults, overdueCases, inflight>>

\* POST /investigations: the status code of the response
InvestigationCode(actor, caseId, rawStatusUpdate) ==
  IF Gate(actor, {"staff", "admin"}) # 0 THEN Gate(actor, {"staff", "admin"})
  ELSE IF rawStatusUpdate # "" /\ rawStatusUpdate \notin InvestigationStatuses
  THEN 400
  ELSE IF FindOne(complaints, caseId) = 0 THEN 404
  ELSE IF ~MayUpdate(complaints[FindOne(complaints, caseId)], actor) THEN 403
  ELSE 201

\* the history entry pushed without the assignment to complaint.status
InvestigationDocStatusNotSet(complaint, actor, statusUpdate, title) ==
  PushHistory(complaint,
              [status |-> statusUpdate, date |-> now, updatedBy |-> actor,
               notes |-> <<"Investigation update", title>>], now)

\* POST /investigations: the document handed to save()
InvestigationDoc(complaint, actor, statusUpdate, title) ==
  PushHistory([complaint EXCEPT !.status = statusUpdate],
              [status |-> statusUpdate, date |-> now, updatedBy |-> actor,
               notes |-> <<"Investigation update", title>>], now)

\* the case updated for every status value given, the current one included:
\* if (statusUpdate) in place of if (statusUpdate && statusUpdate !== status)
InvestigationResultSameStatusToo(actor, caseId, rawStatusUpdate, title) ==
  LET i == FindOne(complaints, caseId)
  IN IF /\ InvestigationCode(actor, caseId, rawStatusUpdate) = 201
        /\ rawStatusUpdate # ""
     THEN [complaints EXCEPT ![i] =
             PreSave(InvestigationDoc(@, actor, rawStatusUpdate, title), @,
                     FALSE, complaints, now)]
     ELSE complaints

\* POST /investigations: the Complaint collection after the request
InvestigationResult(actor, caseId, rawStatusUpdate, title) ==
  LET i == FindOne(complaints, caseId)
  IN IF /\ InvestigationCode(actor, caseId, rawStatusUpdate) = 201
        /\ rawStatusUpdate # ""
        /\ rawStatusUpdate # complaints[i].status
     THEN [complaints EXCEPT ![i] =
             PreSave(InvestigationDoc(@, actor, rawStatusUpdate, title), @,
                     FALSE, complaints, now)]
     ELSE complaints

\* POST /investigations: the Investigation collection after the request
InvestigationsAfter(actor, caseId, rawStatusUpdate) ==
  IF InvestigationCode(actor, caseId, rawStatusUpdate) = 201
  THEN Append(investigations,
              [caseId |-> caseId, staffId |-> actor,
               statusUpdate |-> rawStatusUpdate])
  ELSE investigations

\* POST /investigations
AddInvestigation(actor, caseId, rawStatusUpdate, title) ==
  LET stored == InvestigationsAfter(actor, caseId, rawStatusUpdate)
      saved == InvestigationResult(actor, caseId, rawStatusUpdate, title)
  IN /\ InvestigationCode(actor, caseId, rawStatusUpdate) = 201
     /\ Len(stored) <= MaxInvestigations
     /\ HistoryTotal(saved) <= MaxHist
     /\ investigations' = stored
     /\ complaints' = saved
     /\ UNCHANGED <<users, now, slaPc, slaResults, overdueCases, inflight>>

\* Complaint.countDocuments({ assignedStaff, status: { $nin: [...] } })
ActiveCasesOf(coll, staffId) ==
  Cardinality({i \in 1..Len(coll) :
                 /\ coll[i].assignedStaff = staffId
                 /\ coll[i].status \notin DeleteStaffDoneStatuses})

\* DELETE /staff/:staffId: the status code of the response
DeleteStaffCode(actor, staffId) ==
  IF Gate(actor, {"admin"}) # 0 THEN Gate(actor, {"admin"})
  ELSE IF staffId \notin DOMAIN users \/ users[staffId].role # "staff" THEN 404
  ELSE IF ActiveCasesOf(complaints, staffId) > 0 THEN 400
  ELSE 200

\* DELETE /staff/:staffId: the User collection after the request
DeleteStaffResult(actor, staffId) ==
  IF DeleteStaffCode(actor, staffId) = 200
  THEN [users EXCEPT ![staffId].status = "inactive"]
  ELSE users

\* DELETE /staff/:staffId
DeleteStaff(actor, staffId) ==
  /\ DeleteStaffCode(actor, staffId) = 200
  /\ users' = DeleteStaffResult(actor, staffId)
  /\ UNCHANGED <<complaints, investigations, now, slaPc, slaResults, overdueCases, inflight>>

\* PUT /staff/:staffId: the status code of the response
UpdateStaffCode(actor, staffId) ==
  IF Gate(actor, {"admin"}) # 0 THEN Gate(actor, {"admin"})
  ELSE IF staffId \notin DOMAIN users THEN 404
  ELSE IF users[staffId].role # "staff" THEN 400
  ELSE 200

\* PUT /staff/:staffId: the User collection after the request; updates is the
\* request body, and User.findByIdAndUpdate runs before the role is looked at
UpdateStaffResult(actor, staffId, updates) ==
  IF Gate(actor, {"admin"}) = 0 /\ staffId \in DOMAIN users
  THEN [users EXCEPT ![staffId] =
          ApplySet(@, Restrict(updates, DOMAIN @ \ {"role", "password"}))]
  ELSE users

\* PUT /staff/:staffId
UpdateStaff(actor, staffId, updates) ==
  /\ users' = UpdateStaffResult(actor, staffId, updates)
  /\ UNCHANGED <<complaints, investigations, now, slaPc, slaResults, overdueCases, inflight>>

\* --------------------------------------------------------- evidence routes
\* The routes look the case up by its _id, here its place in the collection.

\* Complaint.findById(id): the index of the document, 0 when none
FindById(coll, id) == IF id \in 1..Len(coll) THEN id ELSE 0

\* the ids a request may name: those stored, and one that is not
ComplaintIdInputs == 1..(Len(complaints) + 1)

\* the permission check of the evidence routes: refuses only role 'citizen'
EvidenceDenied(complaint, actor) ==
  users[actor].role = "citizen" /\ complaint.userId # actor

RECURSIVE EvidenceTotal(_)
\* the number of evidence files stored, over all cases
EvidenceTotal(coll) ==
  IF coll = <<>> THEN 0
  ELSE Len(Head(coll).evidenceFiles) + EvidenceTotal(Tail(coll))

\* POST /evidence/upload/:caseId: the status code of the response; onDisk
\* says whether the upload middleware keeps the files on disk (file.path set)
\* or in memory (file.path undefined, so file.path.replace throws)
UploadEvidenceCode(actor, id, files, onDisk) ==
  IF authenticate(actor) # 0 THEN authenticate(actor)
  ELSE IF FindById(complaints, id) = 0 THEN 404
  ELSE IF EvidenceDenied(complaints[id], actor) THEN 403
  ELSE IF files # <<>> /\ ~onDisk THEN 500
  ELSE 200

\* POST /evidence/upload/:caseId: the Complaint collection after the request
UploadEvidenceResult(actor, id, files, onDisk) ==
  IF UploadEvidenceCode(actor, id, files, onDisk) = 200
  THEN LET caseData == complaints[id]
       IN [complaints EXCEPT ![id] =
             PreSave([caseData EXCEPT !.evidenceFiles = @ \o files], caseData,
                     FALSE, complaints, now)]
  ELSE complaints

\* POST /evidence/upload/:caseId
UploadEvidence(actor, id, files, onDisk) ==
  LET saved == UploadEvidenceResult(actor, id, files, onDisk)
  IN /\ UploadEvidenceCode(actor, id, files, onDisk) = 200
     /\ EvidenceTotal(saved) <= MaxEvidence
     /\ complaints' = saved
     /\ UNCHANGED <<users, investigations, now, slaPc, slaResults, overdueCases,
                    inflight>>

\* DELETE and PUT /evidence/:caseId/:evidenceId: the status code of the response
EvidenceItemCode(actor, id, evidenceId) ==
  IF authenticate(actor) # 0 THEN authenticate(actor)
  ELSE IF FindById(complaints, id) = 0 THEN 404
  ELSE IF EvidenceDenied(complaints[id], actor) THEN 403
  ELSE IF evidenceId \notin 1..Len(complaints[id].evidenceFiles) THEN 404
  ELSE 200

\* evidenceFiles.splice(evidenceIndex, 1)
Splice(files, k) == SubSeq(files, 1, k - 1) \o SubSeq(files, k + 1, Len(files))

\* DELETE /evidence/:caseId/:evidenceId: the Complaint collection after it
DeleteEvidenceResult(actor, id, evidenceId) ==
  IF EvidenceItemCode(actor, id, evidenceId) = 200
  THEN LET caseData == complaints[id]
       IN [complaints EXCEPT ![id] =
             PreSave([caseData EXCEPT !.evidenceFiles = Splice(@, evidenceId)],
                     caseData, FALSE, complaints, now)]
  ELSE complaints

\* DELETE /evidence/:caseId/:evidenceId
DeleteEvidence(actor, id, evidenceId) ==
  /\ EvidenceItemCode(actor, id, evidenceId) = 200
  /\ complaints' = DeleteEvidenceResult(actor, id, evidenceId)
  /\ UNCHANGED <<users, investigations, now, slaPc, slaResults, overdueCases,
                 inflight>>

\* PUT /evidence/:caseId/:evidenceId: the Complaint collection after it; the
\* evidence sub-schema declares neither description nor evidenceType nor
\* updatedAt, so the stored item stays as it is
UpdateEvidenceResult(actor, id, evidenceId) ==
  IF EvidenceItemCode(actor, id, evidenceId) = 200
  THEN LET caseData == complaints[id]
       IN [complaints EXCEPT ![id] =
             PreSave(caseData, caseData, FALSE, complaints, now)]
  ELSE complaints

\* PUT /evidence/:caseId/:evidenceId
UpdateEvidence(actor, id, evidenceId) ==
  /\ EvidenceItemCode(actor, id, evidenceId) = 200
  /\ complaints' = UpdateEvidenceResult(actor, id, evidenceId)
  /\ UNCHANGED <<users, investigations, now, slaPc, slaResults, overdueCases,
                 inflight>>

\* the access check of the routes that read a case: owner, assigned staff
\* member or admin
MayRead(complaint, actor) ==
  \/ complaint.userId = actor
  \/ complaint.assignedStaff = actor
  \/ users[actor].role = "admin"

\* GET /complaints/:caseId, GET /investigations/case/:caseId and
\* GET /investigations/:investigationId: the status code of the response
ReadCaseCode(actor, caseId) ==
  IF authenticate(actor) # 0 THEN authenticate(actor)
  ELSE IF FindOne(complaints, caseId) = 0 THEN 404
  ELSE IF ~MayRead(complaints[FindOne(complaints, caseId)], actor) THEN 403
  ELSE 200

\* the file names a request for an evidence file may carry
FilenameInputs == {"photo.jpg", "scan.pdf", "none.png"}

\* evidenceFile.data: the filing route stores the file's buffer with the
\* item, the evidence upload route does not
HasData(filename) == \E f \in FileInputs : filename \in Range(f)

\* GET /complaints/:complaintId/evidence/:filename: the status code
GetEvidenceFileCode(actor, id, filename) ==
  IF authenticate(actor) # 0 THEN authenticate(actor)
  ELSE IF FindById(complaints, id) = 0 THEN 404
  ELSE IF filename \notin Range(complaints[id].evidenceFiles) THEN 404
  ELSE IF ~HasData(filename) THEN 404
  ELSE 200

\* ------------------------------------------------------------ SLA monitor

\* a JavaScript number: <<n>>, or NaN
Num(n) == <<n>>
NaN == <<>>

NumSub(a, b) == IF a = NaN \/ b = NaN THEN NaN ELSE Num(a[1] - b[1])

\* a > b: false when either side is NaN
NumGt(a, b) == a # NaN /\ b # NaN /\ a[1] > b[1]

\* Math.max(a, b): NaN when either side is NaN
NumMax(a, b) ==
  IF a = NaN \/ b = NaN THEN NaN ELSE IF a[1] >= b[1] THEN a ELSE b

\* new Date(entry.timestamp), in hours: Invalid Date when the entry has no such field
StatusStartTime(entry) ==
  IF Has(entry, "timestamp") THEN Num(entry.timestamp) ELSE NaN

\* checkSLACompliance at time t: <<>> for null, else the one result
checkSLACompliance(complaint, id, t) ==
  LET statusHistory == complaint.statusHistory
      currentStatus == Last(statusHistory)
      hoursElapsed == NumSub(Num(t), StatusStartTime(currentStatus))
      threshold == SLA_THRESHOLDS[currentStatus.status]
  IN IF Len(statusHistory) = 0 THEN <<>>
     ELSE IF currentStatus.status \notin DOMAIN SLA_THRESHOLDS THEN <<>>
     ELSE <<[complaintId |-> id,
             caseId |-> complaint.caseId,
             currentStatus |-> currentStatus.status,
             hoursElapsed |-> hoursElapsed,
             threshold |-> threshold,
             isOverdue |-> NumGt(hoursElapsed, Num(threshold)),
             overdueBy |-> NumMax(Num(0), NumSub(hoursElapsed, Num(threshold)))]>>

RECURSIVE SLAResultsFrom(_, _, _)
\* the loop of performSLACheck over Complaint.find({ status: { $in: [...] } }),
\* from document k on
SLAResultsFrom(coll, k, t) ==
  IF k > Len(coll) THEN <<>>
  ELSE IF coll[k].status \in MonitoredStatuses
  THEN checkSLACompliance(coll[k], k, t) \o SLAResultsFrom(coll, k + 1, t)
  ELSE SLAResultsFrom(coll, k + 1, t)

RECURSIVE OverdueOf(_)
OverdueOf(results) ==
  IF results = <<>> THEN <<>>
  ELSE IF Head(results).isOverdue
  THEN <<Head(results)>> \o OverdueOf(Tail(results))
  ELSE OverdueOf(Tail(results))

\* Complaint.findByIdAndUpdate(id, { $set: upd }): the update is cast by the
\* schema, which drops the paths it does not declare
FindByIdAndUpdate(coll, id, upd) ==
  IF id \in 1..Len(coll)
  THEN [coll EXCEPT ![id] = ApplySet(@, Restrict(upd, ComplaintSchemaPaths))]
  ELSE coll

\* the sweep flagging every stored case through the raw collection:
\* Complaint.collection.updateMany({}, { $set: ... }), which no schema casts
updateSLAStatusFlagsEveryCase(overdue, coll, t) ==
  [i \in 1..Len(coll) |->
     ApplySet(coll[i], [slaStatus |-> "Overdue", lastSLACheck |-> t])]

\* the sweep closing every case it monitors instead of flagging the overdue ones
updateSLAStatusClosesCases(overdue, coll, t) ==
  [i \in 1..Len(coll) |->
     IF coll[i].status \in MonitoredStatuses
     THEN [coll[i] EXCEPT !.status = "Closed"]
     ELSE coll[i]]

RECURSIVE updateSLAStatus(_, _, _)
\* updateSLAStatus: one findByIdAndUpdate for each overdue case
updateSLAStatus(overdue, coll, t) ==
  IF overdue = <<>> THEN coll
  ELSE updateSLAStatus(
         Tail(overdue),
         FindByIdAndUpdate(coll, Head(overdue).complaintId,
                           [slaStatus |-> "Overdue", lastSLACheck |-> t]),
         t)

\* Complaint.countDocuments({ slaStatus: 'Overdue' }): the filter is applied
\* to the stored documents as written
OverdueCount(coll) ==
  Cardinality({i \in 1..Len(coll) :
                 Has(coll[i], "slaStatus") /\ coll[i].slaStatus = "Overdue"})

\* the statistics with the share of overdue cases in place of the on-time share
getSLAStatisticsOverdueShare(coll) ==
  LET totalActive ==
        Cardinality({i \in 1..Len(coll) : coll[i].status \in MonitoredStatuses})
      overdueCount == OverdueCount(coll)
  IN [totalActive |-> totalActive,
      overdueCount |-> overdueCount,
      onTimeCount |-> totalActive - overdueCount,
      complianceRate |-> IF totalActive > 0
                         THEN <<overdueCount * 100, totalActive>>
                         ELSE <<100, 1>>]

\* getSLAStatistics; complianceRate is the fraction <<numerator, denominator>>
\* of (onTimeCount / totalActive) * 100
getSLAStatistics(coll) ==
  LET totalActive ==
        Cardinality({i \in 1..Len(coll) : coll[i].status \in MonitoredStatuses})
      overdueCount == OverdueCount(coll)
      onTimeCount == totalActive - overdueCount
  IN [totalActive |-> totalActive,
      overdueCount |-> overdueCount,
      onTimeCount |-> onTimeCount,
      complianceRate |-> IF totalActive > 0
                         THEN <<onTimeCount * 100, totalActive>>
                         ELSE <<100, 1>>]

\* performSLACheck up to its await of updateSLAStatus: read and check
SLAFetch ==
  /\ slaPc = "idle"
  /\ slaResults' = SLAResultsFrom(complaints, 1, now)
  /\ overdueCases' = OverdueOf(SLAResultsFrom(complaints, 1, now))
  /\ slaPc' = "fetched"
  /\ UNCHANGED <<users, complaints, investigations, now, inflight>>

\* performSLACheck from updateSLAStatus on: flag the overdue cases
SLAUpdate ==
  /\ slaPc = "fetched"
  /\ complaints' = updateSLAStatus(overdueCases, complaints, now)
  /\ slaPc' = "idle"
  /\ slaResults' = <<>>
  /\ overdueCases' = <<>>
  /\ UNCHANGED <<users, investigations, now, inflight>>

Next ==
  \/ \E a \in FilerInputs, f \in FileInputs : FileComplaint(a, f)
  \/ \E s \in SeedStatuses : SeedComplaint(s)
  \/ \E a \in ActorInputs, c \in CaseIdInputs, t \in StaffIdInputs :
       AssignComplaint(a, c, t)
  \/ \E a \in ActorInputs, c \in CaseIdInputs, s \in StatusInputs, n \in NoteInputs :
       UpdateStatus(a, c, s, n)
  \/ \E a \in ActorInputs, c \in CaseIdInputs, s \in InvestigationStatusInputs :
       AddInvestigation(a, c, s, "t1")
  \/ \E a \in ActorInputs, t \in StaffTargetInputs : DeleteStaff(a, t)
  \/ \E a \in ActorInputs, t \in StaffUpdateTargets, u \in StaffUpdateInputs :
       UpdateStaff(a, t, u)

Spec == Init /\ [][Next]_vars

\* the SLA monitor, with the clock and the requests that move a case
NextSLA ==
  \/ \E h \in TickHours : Tick(h)
  \/ \E a \in FilerInputs, f \in FileInputs : FileComplaint(a, f)
  \/ \E s \in SeedStatuses : SeedComplaint(s)
  \/ \E c \in CaseIdInputs, t \in SLAStaffInputs : AssignComplaint("admin1", c, t)
  \/ \E c \in CaseIdInputs, s \in SLAStatusInputs, n \in NoteInputs :
       UpdateStatus("admin1", c, s, n)
  \/ SLAFetch
  \/ SLAUpdate

SpecSLA == Init /\ [][NextSLA]_vars

\* --------------------------------------------- the monitor under failures
\* slaPc is "failed" when the last sweep ended in a catch block, and "crashed"
\* when an exception has left the monitor: the rejection of the un-awaited
\* initial performSLACheck() is handled by nobody and ends the process, and
\* with it the timer.

\* whether the database answers Complaint.find of a sweep
FindOutcomes == BOOLEAN

\* the cases whose findByIdAndUpdate the database rejects
FailingSets == SUBSET (1..MaxCases)

\* performSLACheck without its try/catch: a failed find leaves the function
SweepAfterFindUncaught(findOk) == IF findOk THEN "fetched" ELSE "crashed"

\* performSLACheck after Complaint.find: the catch block logs a failure
SweepAfterFind(findOk) == IF findOk THEN "fetched" ELSE "failed"

RECURSIVE updateSLAStatusWith(_, _, _, _)
\* updateSLAStatus when the updates of the cases in failing throw: the catch
\* inside the loop logs the error and the loop goes on
updateSLAStatusWith(overdue, coll, t, failing) ==
  IF overdue = <<>> THEN coll
  ELSE updateSLAStatusWith(
         Tail(overdue),
         IF Head(overdue).complaintId \in failing
         THEN coll
         ELSE FindByIdAndUpdate(coll, Head(overdue).complaintId,
                                [slaStatus |-> "Overdue", lastSLACheck |-> t]),
         t, failing)

\* a timer callback (or the initial call) up to the await of updateSLAStatus
SweepFetch(findOk) ==
  /\ slaPc \in {"idle", "failed"}
  /\ slaPc' = SweepAfterFind(findOk)
  /\ slaResults' = IF findOk THEN SLAResultsFrom(complaints, 1, now) ELSE <<>>
  /\ overdueCases' =
       IF findOk THEN OverdueOf(SLAResultsFrom(complaints, 1, now)) ELSE <<>>
  /\ UNCHANGED <<users, complaints, investigations, now, inflight>>

\* the sweep from updateSLAStatus on
SweepUpdate(failing) ==
  /\ slaPc = "fetched"
  /\ complaints' = updateSLAStatusWith(overdueCases, complaints, now, failing)
  /\ slaPc' = "idle"
  /\ slaResults' = <<>>
  /\ overdueCases' = <<>>
  /\ UNCHANGED <<users, investigations, now, inflight>>

NextSweep ==
  \/ \E h \in TickHours : Tick(h)
  \/ \E a \in FilerInputs, f \in FileInputs : FileComplaint(a, f)
  \/ \E c \in CaseIdInputs, st \in SLAStatusInputs, n \in NoteInputs :
       UpdateStatus("admin1", c, st, n)
  \/ \E ok \in FindOutcomes : SweepFetch(ok)
  \/ \E failing \in FailingSets : SweepUpdate(failing)

SpecSweep == Init /\ [][NextSweep]_vars

\* the store once a first complaint has been filed
InitOps ==
  /\ users = [u \in UserIds |->
               [role |-> RoleOf(u), status |-> "active", name |-> u,
                staffId |-> StaffIdOf(u)]]
  /\ \E a \in FilerInputs, f \in FileInputs :
       complaints = SaveNew(NewComplaint(a, "Filed", f), <<>>, 0)
  /\ investigations = <<>>
  /\ now = 0
  /\ slaPc = "idle"
  /\ slaResults = <<>>
  /\ overdueCases = <<>>
  /\ inflight = [p \in Procs |-> Idle]

\* every operation on a stored case, the SLA sweep among them
NextOps ==
  \/ \E h \in TickHours : Tick(h)
  \/ \E c \in CaseIdInputs, t \in SLAStaffInputs :
       AssignComplaint("admin1", c, t)
  \/ \E c \in CaseIdInputs, st \in SLAStatusInputs, n \in NoteInputs :
       UpdateStatus("admin1", c, st, n)
  \/ \E c \in CaseIdInputs, st \in InvestigationStatusInputs :
       AddInvestigation("admin1", c, st, "t1")
  \/ \E a \in FilerInputs, i \in ComplaintIdInputs,
        f \in EvidenceUploadInputs, d \in BOOLEAN :
       UploadEvidence(a, i, f, d)
  \/ \E a \in FilerInputs, i \in ComplaintIdInputs, e \in EvidenceIdInputs :
       DeleteEvidence(a, i, e)
  \/ \E a \in FilerInputs, i \in ComplaintIdInputs, e \in EvidenceIdInputs :
       UpdateEvidence(a, i, e)
  \/ SLAFetch
  \/ SLAUpdate

SpecOps == InitOps /\ [][NextOps]_vars

\* PATCH /complaints/:caseId/status with any of the nine statuses, on a case
\* that may already have been moved several times
MoveStatus(actor, caseId, status, notes) ==
  LET saved == StatusResult(actor, caseId, status, notes)
  IN /\ StatusCode(actor, caseId, status) = 200
     /\ HistoryTotal(saved) <= MaxHist + MaxCases
     /\ complaints' = saved
     /\ UNCHANGED <<users, investigations, now, slaPc, slaResults, overdueCases,
                    inflight>>

NextTransitions ==
  \/ \E c \in CaseIdInputs, t \in SLAStaffInputs :
       AssignComplaint("admin1", c, t)
  \/ \E a \in ActorInputs, c \in CaseIdInputs, st \in Statuses,
        n \in NoteInputs :
       MoveStatus(a, c, st, n)

SpecTransitions == InitOps /\ [][NextTransitions]_vars

\* ------------------------------------------------- case numbers of a day
\* The case number depends on how many cases the day has seen. This
\* specification starts in the first hour of day 0 after n complaints were
\* filed (each got the number that follows the greatest one stored, which is
\* n for the n-th while the numbers have the same width), and files more.

\* how many cases day 0 has seen when the specification starts
DayLoadInputs ==
  {0, 1, 2, 3, 8, 9, 10, 11, 98, 99, 100, 998, 999, 1000, 9998, 9999, 10000}

\* the k-th complaint of day 0, as POST /complaints/file stored it at hour 0
EarlierCase(k) ==
  [userId |-> "user1", evidenceFiles |-> <<>>, status |-> "Filed",
   assignedStaff |-> Null,
   statusHistory |-> <<[status |-> "Filed", date |-> 0, updatedBy |-> Null,
                        notes |-> NoNote]>>,
   caseId |-> FormatCaseId(0, k)]

\* the cases created from hour t on
FiledSince(t) ==
  {i \in 1..Len(complaints) : complaints[i].statusHistory[1].date >= t}

InitDayLoad ==
  /\ users = [u \in UserIds |->
               [role |-> RoleOf(u), status |-> "active", name |-> u,
                staffId |-> StaffIdOf(u)]]
  /\ \E n \in DayLoadInputs : complaints = [k \in 1..n |-> EarlierCase(k)]
  /\ investigations = <<>>
  /\ now = 1
  /\ slaPc = "idle"
  /\ slaResults = <<>>
  /\ overdueCases = <<>>
  /\ inflight = [p \in Procs |-> Idle]

\* POST /complaints/file on a day that has seen cases before
FileComplaintLater(actor, files) ==
  /\ FileCode(actor) = 201
  /\ Cardinality(FiledSince(1)) < MaxCases
  /\ complaints' = FileResult(actor, files)
  /\ UNCHANGED <<users, investigations, now, slaPc, slaResults, overdueCases, inflight>>

NextDayLoad ==
  \/ \E h \in TickHours : Tick(h)
  \/ \E a \in FilerInputs, f \in FileInputs : FileComplaintLater(a, f)

SpecDayLoad == InitDayLoad /\ [][NextDayLoad]_vars

\* ---------------------------------------------------- concurrent requests
\* A handler gives way at each await. Between the query of the caseId hook
\* and the insert of save(), another request may run.

\* POST /complaints/file up to the insert: validation and the pre('save')
\* hooks have run, the hook has read the last case number of the day
FileBegin(p, actor, files) ==
  LET doc == NewComplaint(actor, "Filed", files)
  IN /\ inflight[p].op \in {"none", "done"}
     /\ authenticate(actor) = 0
     /\ doc.userId # Null
     /\ Len(complaints) < MaxCases
     /\ HistoryTotal(complaints) < MaxHist
     /\ inflight' = [inflight EXCEPT ![p] =
                       [op |-> "file",
                        doc |-> PreSave(doc, doc, TRUE, complaints, now)]]
     /\ UNCHANGED <<users, complaints, investigations, now, slaPc, slaResults,
                    overdueCases>>

\* POST /complaints/file from the insert on: the unique index decides; the
\* catch block answers 500 when the insert is rejected
FileEnd(p) ==
  LET doc == inflight[p].doc
  IN /\ inflight[p].op = "file"
     /\ IF DuplicateKey(complaints, doc)
        THEN /\ complaints' = complaints
             /\ inflight' = [inflight EXCEPT ![p] =
                               [op |-> "done", code |-> 500,
                                caseId |-> doc.caseId]]
        ELSE /\ complaints' = Append(complaints, doc)
             /\ inflight' = [inflight EXCEPT ![p] =
                               [op |-> "done", code |-> 201,
                                caseId |-> doc.caseId]]
     /\ UNCHANGED <<users, investigations, now, slaPc, slaResults, overdueCases>>

NextConcurrent ==
  \/ \E h \in TickHours : Tick(h)
  \/ \E p \in Procs, a \in FilerInputs, f \in FileInputs : FileBegin(p, a, f)
  \/ \E p \in Procs : FileEnd(p)

SpecConcurrent == Init /\ [][NextConcurrent]_vars

\* ------------------------------------------------- the save of a request
\* complaint.save() sends one update of one document, which the database
\* applies as a whole or rejects as a whole; a rejected save throws, and the
\* catch block of the route answers 500.

\* whether the database accepts the write of a save
SaveOutcomes == BOOLEAN

\* a status update whose save is rejected: the write that leaves the status
\* set and the history entry out
StatusCommitStatusOnly(actor, caseId, status, notes, dbOk) ==
  IF dbOk THEN StatusResult(actor, caseId, status, notes)
  ELSE [complaints EXCEPT ![FindOne(complaints, caseId)].status = status]

\* PATCH /complaints/:caseId/status: the collection after the handler's save
StatusCommit(actor, caseId, status, notes, dbOk) ==
  IF dbOk THEN StatusResult(actor, caseId, status, notes) ELSE complaints

\* PATCH /complaints/:caseId/status, from the request to the response, with
\* the outcome of the save
UpdateStatusAttempt(p, actor, caseId, status, notes, dbOk) ==
  LET saved == StatusCommit(actor, caseId, status, notes, dbOk)
  IN /\ StatusCode(actor, caseId, status) = 200
     /\ HistoryTotal(saved) <= MaxHist
     /\ complaints' = saved
     /\ inflight' = [inflight EXCEPT ![p] =
                       [op |-> "status",
                        code |-> IF dbOk THEN 200 ELSE 500]]
     /\ UNCHANGED <<users, investigations, now, slaPc, slaResults, overdueCases>>

\* whether POST /investigations reaches its second save, complaint.save()
UpdatesCase(actor, caseId, rawStatusUpdate) ==
  /\ rawStatusUpdate # ""
  /\ rawStatusUpdate # complaints[FindOne(complaints, caseId)].status

\* POST /investigations, from the request to the response, with the outcomes
\* of investigation.save() and of complaint.save()
AddInvestigationAttempt(p, actor, caseId, rawStatusUpdate, title, invOk, caseOk) ==
  LET stored == InvestigationsAfter(actor, caseId, rawStatusUpdate)
      saved == InvestigationResult(actor, caseId, rawStatusUpdate, title)
      second == UpdatesCase(actor, caseId, rawStatusUpdate)
  IN /\ InvestigationCode(actor, caseId, rawStatusUpdate) = 201
     /\ Len(stored) <= MaxInvestigations
     /\ HistoryTotal(saved) <= MaxHist
     /\ investigations' = IF invOk THEN stored ELSE investigations
     /\ complaints' = IF invOk /\ second /\ caseOk THEN saved ELSE complaints
     /\ inflight' = [inflight EXCEPT ![p] =
                       [op |-> "investigation",
                        code |-> IF invOk /\ (second => caseOk)
                                 THEN 201 ELSE 500]]
     /\ UNCHANGED <<users, now, slaPc, slaResults, overdueCases>>

\* POST /public/tip with a valid body: the document handed to save()
TipDoc == NewComplaint(Null, "Filed", <<>>)

\* POST /public/tip with a valid body: the status code of the response
TipCode == IF SaveError(TipDoc, complaints, now) # "none" THEN 500 ELSE 200

\* POST /public/tip with a valid body: the Complaint collection after it
TipResult == SaveNew(TipDoc, complaints, now)

\* POST /public/tip with a valid body, from the request to the response
SubmitTip(p) ==
  /\ Len(TipResult) <= MaxCases
  /\ HistoryTotal(TipResult) <= MaxHist
  /\ complaints' = TipResult
  /\ inflight' = [inflight EXCEPT ![p] = [op |-> "tip", code |-> TipCode]]
  /\ UNCHANGED <<users, investigations, now, slaPc, slaResults, overdueCases>>

\* authorize(['staff', 'admin']) of routes/cases.js: the one role listed is
\* the array itself, written here as its string
CasesRouteRoles == {"staff,admin"}

\* PUT /cases/:id/status: the status code of the response
PutCaseStatusCode(actor, id) ==
  IF Gate(actor, CasesRouteRoles) # 0 THEN Gate(actor, CasesRouteRoles)
  ELSE IF FindById(complaints, id) = 0 THEN 404
  ELSE 200

\* PUT /cases/:id/status: the Complaint collection after the request
PutCaseStatusResult(actor, id, status, notes) ==
  IF PutCaseStatusCode(actor, id) = 200
  THEN LET caseData == complaints[id]
       IN [complaints EXCEPT ![id] =
             PreSave(PushHistory([caseData EXCEPT !.status = status],
                                 [status |-> status, updatedBy |-> actor,
                                  notes |-> notes, timestamp |-> now], now),
                     caseData, FALSE, complaints, now)]
  ELSE complaints

\* the requests here are handled one after the other, in one slot
CommitProcs == {"r1"}

NextCommit ==
  \/ \E a \in FilerInputs, f \in FileInputs : FileComplaint(a, f)
  \/ \E c \in CaseIdInputs, t \in SLAStaffInputs :
       AssignComplaint("admin1", c, t)
  \/ \E p \in CommitProcs, a \in ActorInputs, c \in CaseIdInputs,
        st \in StatusInputs, n \in NoteInputs, ok \in SaveOutcomes :
       UpdateStatusAttempt(p, a, c, st, n, ok)
  \/ \E p \in CommitProcs, a \in ActorInputs, c \in CaseIdInputs,
        st \in InvestigationStatusInputs, ok1 \in SaveOutcomes,
        ok2 \in SaveOutcomes :
       AddInvestigationAttempt(p, a, c, st, "t1", ok1, ok2)
  \/ \E p \in CommitProcs : SubmitTip(p)

SpecCommit == Init /\ [][NextCommit]_vars

\* ------------------------------------------- status updates side by side
\* A handler reads the case (await Complaint.findOne), changes the document in
\* memory and saves it. save() sends the changes only: $set for the paths
\* whose value differs from the one loaded, $push for the entries appended to
\* statusHistory; the schema has no optimistic concurrency, so the write is
\* applied to whatever the stored document is by then.

\* status values of the requests that run side by side
RaceStatusInputs == {"Filed", "Completed"}

\* the update save() sends for doc, loaded as read, applied to stored
ApplyDelta(stored, read, doc) ==
  [f \in (DOMAIN stored) \cup (DOMAIN doc) |->
     IF f = "statusHistory"
     THEN stored[f] \o SubSeq(doc[f], Len(read[f]) + 1, Len(doc[f]))
     ELSE IF f \in DOMAIN doc /\ (f \notin DOMAIN read \/ doc[f] # read[f])
     THEN doc[f]
     ELSE stored[f]]

\* the history entries a status update in flight will push
PendingPushes(slot) ==
  IF slot.op # "status" THEN 0
  ELSE IF slot.status # slot.read.status THEN 2
  ELSE 1

RECURSIVE PendingTotal(_)
\* the history entries the requests in the slots S will push
PendingTotal(S) ==
  IF S = {} THEN 0
  ELSE LET p == CHOOSE x \in S : TRUE
       IN PendingPushes(inflight[p]) + PendingTotal(S \ {p})

\* PATCH /complaints/:caseId/status up to its save: the case has been read
\* and the permission check has passed
StatusBegin(p, actor, caseId, status, notes) ==
  LET read == complaints[FindOne(complaints, caseId)]
      slot == [op |-> "status", id |-> FindOne(complaints, caseId),
               read |-> read, actor |-> actor, status |-> status,
               notes |-> notes]
  IN /\ inflight[p].op # "status"
     /\ StatusCode(actor, caseId, status) = 200
     /\ HistoryTotal(complaints) + PendingTotal(Procs \ {p})
          + PendingPushes(slot) <= MaxHist
     /\ inflight' = [inflight EXCEPT ![p] = slot]
     /\ UNCHANGED <<users, complaints, investigations, now, slaPc, slaResults,
                    overdueCases>>

\* PATCH /complaints/:caseId/status from the change of the document on
StatusEnd(p) ==
  LET slot == inflight[p]
      doc == PreSave(StatusDoc(slot.read, slot.actor, slot.status, slot.notes),
                     slot.read, FALSE, complaints, now)
  IN /\ slot.op = "status"
     /\ complaints' = [complaints EXCEPT ![slot.id] =
                         ApplyDelta(@, slot.read, doc)]
     /\ inflight' = [inflight EXCEPT ![p] =
                       [op |-> "updated", code |-> 200, id |-> slot.id,
                        pushed |-> SubSeq(doc.statusHistory,
                                          Len(slot.read.statusHistory) + 1,
                                          Len(doc.statusHistory))]]
     /\ UNCHANGED <<users, investigations, now, slaPc, slaResults, overdueCases>>

NextRace ==
  \/ \E a \in FilerInputs, f \in FileInputs : FileComplaint(a, f)
  \/ \E p \in Procs, a \in ActorInputs, c \in CaseIdInputs,
        st \in RaceStatusInputs, n \in NoteInputs :
       StatusBegin(p, a, c, st, n)
  \/ \E p \in Procs : StatusEnd(p)

SpecRace == Init /\ [][NextRace]_vars

\* ------------------------------------- assignment next to deactivation
\* Both handlers check first and write later, with awaits in between.

\* PATCH /complaints/:caseId/assign up to its save: the case has been read and
\* the staff member has been found active
AssignBegin(p, actor, caseId, staffId) ==
  /\ inflight[p].op \notin {"assign", "deactivate"}
  /\ AssignCode(actor, caseId, staffId) = 200
  /\ HistoryTotal(complaints)
       + 2 * Cardinality({q \in Procs : inflight[q].op = "assign"} \cup {p})
       <= MaxHist
  /\ inflight' = [inflight EXCEPT ![p] =
                    [op |-> "assign", id |-> FindOne(complaints, caseId),
                     read |-> complaints[FindOne(complaints, caseId)],
                     actor |-> actor, staffId |-> staffId]]
  /\ UNCHANGED <<users, complaints, investigations, now, slaPc, slaResults,
                 overdueCases>>

\* PATCH /complaints/:caseId/assign from the change of the document on
AssignEnd(p) ==
  LET slot == inflight[p]
      doc == PreSave(AssignedDoc(slot.read, slot.actor, slot.staffId),
                     slot.read, FALSE, complaints, now)
  IN /\ slot.op = "assign"
     /\ complaints' = [complaints EXCEPT ![slot.id] =
                         ApplyDelta(@, slot.read, doc)]
     /\ inflight' = [inflight EXCEPT ![p] = [op |-> "assigned", code |-> 200]]
     /\ UNCHANGED <<users, investigations, now, slaPc, slaResults, overdueCases>>

\* DELETE /staff/:staffId up to its save: the account has been read and no
\* active case has been counted
DeleteStaffBegin(p, actor, staffId) ==
  /\ inflight[p].op \notin {"assign", "deactivate"}
  /\ DeleteStaffCode(actor, staffId) = 200
  /\ inflight' = [inflight EXCEPT ![p] =
                    [op |-> "deactivate", staffId |-> staffId]]
  /\ UNCHANGED <<users, complaints, investigations, now, slaPc, slaResults,
                 overdueCases>>

\* DELETE /staff/:staffId from staff.status = 'inactive' on
DeleteStaffEnd(p) ==
  /\ inflight[p].op = "deactivate"
  /\ users' = [users EXCEPT ![inflight[p].staffId].status = "inactive"]
  /\ inflight' = [inflight EXCEPT ![p] = [op |-> "deactivated", code |-> 200]]
  /\ UNCHANGED <<complaints, investigations, now, slaPc, slaResults,
                 overdueCases>>

NextStaffRace ==
  \/ \E h \in TickHours : Tick(h)
  \/ \E a \in FilerInputs, f \in FileInputs : FileComplaint(a, f)
  \/ \E p \in Procs, c \in CaseIdInputs, t \in StaffIdInputs :
       AssignBegin(p, "admin1", c, t)
  \/ \E p \in Procs : AssignEnd(p)
  \/ \E p \in Procs, t \in StaffTargetInputs : DeleteStaffBegin(p, "admin1", t)
  \/ \E p \in Procs : DeleteStaffEnd(p)

SpecStaffRace == Init /\ [][NextStaffRace]_vars

\* ------------------------------------------------------------------ claims

\* the index of the case a request names
CaseOf(caseId) == FindOne(complaints, caseId)

Cases == 1..Len(complaints)

\* an account that is no active staff member, stated on the stored record
NotActiveStaff(staffId) ==
  \/ staffId \notin DOMAIN users
  \/ users[staffId].role # "staff"
  \/ users[staffId].status # "active"

\* the staff member has a case in a non-terminal status
HasOpenCase(staffId) ==
  \E i \in Cases :
    /\ complaints[i].assignedStaff = staffId
    /\ complaints[i].status \notin TerminalStatuses

\* the fields of a case an SLA sweep has no business with
Substantive(doc) ==
  Restrict(doc, {"caseId", "status", "statusHistory", "assignedStaff",
                 "evidenceFiles"})

\* the two fields an SLA sweep writes
SLAFlagPaths == {"slaStatus", "lastSLACheck"}

\* every account id a request may name, stored or not
AnyAccount == UserIds \cup {NoSuchUser}

\* C1: every successful status update (PATCH /complaints/:caseId/status)
\* lengthens the case's status history by exactly one entry, so that N updates
\* after creation leave N + 1 entries, whether or not the status value changes.
C1_OneEntryPerStatusUpdate ==
  [][\A a \in ActorInputs, c \in CaseIdInputs, s \in StatusInputs, n \in NoteInputs :
       (StatusCode(a, c, s) = 200 /\ UpdateStatus(a, c, s, n))
         => Len(complaints'[CaseOf(c)].statusHistory)
              = Len(complaints[CaseOf(c)].statusHistory) + 1]_vars

\* C2: in every reachable state the status of the last entry of a case's
\* status history equals the case's current status.
C2_LastEntryIsCurrentStatus ==
  \A i \in Cases :
    /\ Len(complaints[i].statusHistory) > 0
    /\ Last(complaints[i].statusHistory).status = complaints[i].status

\* a case that was moved to a terminal status after several history entries
C2_Witness ==
  \E i \in Cases :
    /\ Len(complaints[i].statusHistory) >= 3
    /\ complaints[i].status \in TerminalStatuses

\* C3: a case just created, by filing or by seeding with any initial status,
\* has a non-empty status history whose first entry carries the initial status.
C3_InitialHistoryEntry ==
  /\ \A a \in UserIds, f \in FileInputs :
       FileCode(a) = 201 =>
         LET created == Last(FileResult(a, f))
         IN /\ Len(created.statusHistory) > 0
            /\ created.status = "Filed"
            /\ created.statusHistory[1].status = created.status
  /\ \A s \in SeedStatuses :
       LET created == Last(SeedResult(s))
       IN /\ Len(created.statusHistory) > 0
          /\ created.status = s
          /\ created.statusHistory[1].status = created.status

\* a seeded case whose initial status is not the default one
C3_Witness ==
  \E i \in Cases :
    /\ Len(complaints[i].statusHistory) = 1
    /\ complaints[i].status = "Under Investigation"
    /\ complaints[i].statusHistory[1].status = "Under Investigation"

\* C4: a successful assignment sets the status to 'Assigned', sets
\* assignedStaff to the staff member and appends exactly one history entry,
\* whose note identifies the assignee.
C4_AssignAppendsOneEntry ==
  [][\A a \in ActorInputs, c \in CaseIdInputs, t \in StaffIdInputs :
       (AssignCode(a, c, t) = 200 /\ AssignComplaint(a, c, t))
         => LET before == complaints[CaseOf(c)]
                after == complaints'[CaseOf(c)]
            IN /\ after.status = "Assigned"
               /\ after.assignedStaff = t
               /\ Len(after.statusHistory) = Len(before.statusHistory) + 1
               /\ SubSeq(after.statusHistory, 1, Len(before.statusHistory))
                    = before.statusHistory
               /\ Last(after.statusHistory).notes
                    = <<"Assigned to", users[t].name, users[t].staffId>>]_vars

\* C5: an assignment whose target account does not exist, is no staff member
\* or is not active ends with an error and leaves every case as it was.
C5_InvalidAssigneeRejected ==
  \A a \in UserIds, c \in CaseIdInputs, t \in AnyAccount :
    NotActiveStaff(t) =>
      /\ AssignCode(a, c, t) >= 400
      /\ AssignResult(a, c, t) = complaints

\* an admin names a deactivated staff member for a case that has an assignee
C5_Witness ==
  \E i \in Cases, t \in StaffIdInputs :
    /\ complaints[i].assignedStaff # Null
    /\ t \in DOMAIN users
    /\ users[t].role = "staff"
    /\ users[t].status = "inactive"
    /\ AssignCode("admin1", complaints[i].caseId, t) = 400

\* C6: an assignment to a case in a terminal status is rejected, and the case
\* keeps its status, its assignee and its history.
C6_TerminalCaseNotAssigned ==
  \A a \in UserIds, c \in CaseIdInputs, t \in AnyAccount :
    (CaseOf(c) # 0 /\ complaints[CaseOf(c)].status \in TerminalStatuses) =>
      /\ AssignCode(a, c, t) >= 400
      /\ AssignResult(a, c, t) = complaints

\* C7: no staff-management request (DELETE or PUT /staff/:staffId) deactivates
\* a staff member who has a case in a non-terminal status.
C7_NoDeactivationWithOpenCases ==
  [][\A s \in UserIds :
       (users[s].role = "staff" /\ users[s].status # "inactive" /\ HasOpenCase(s))
         => users'[s].status # "inactive"]_vars

\* C8: the SLA check reports a case in a monitored status overdue exactly when
\* the hours since its latest history entry exceed the threshold, by the excess.
C8_OverdueWhenDwellExceedsThreshold ==
  [][SLAFetch =>
       \A i \in Cases :
         complaints[i].status \in MonitoredStatuses =>
           LET dwell == now - Last(complaints[i].statusHistory).date
               threshold == SLA_THRESHOLDS[complaints[i].status]
           IN \E k \in 1..Len(slaResults') :
                /\ slaResults'[k].complaintId = i
                /\ slaResults'[k].isOverdue = (dwell > threshold)
                /\ (dwell > threshold) =>
                     slaResults'[k].overdueBy = Num(dwell - threshold)]_vars

\* C9: after a sweep, every case in a monitored status whose dwell time exceeds
\* the threshold carries the overdue flag and a last-checked timestamp.
C9_OverdueFlagPersisted ==
  [][SLAUpdate =>
       \A i \in Cases :
         (/\ complaints'[i].status \in MonitoredStatuses
          /\ now - Last(complaints'[i].statusHistory).date
               > SLA_THRESHOLDS[complaints'[i].status])
           => /\ Has(complaints'[i], "slaStatus")
              /\ complaints'[i].slaStatus = "Overdue"
              /\ Has(complaints'[i], "lastSLACheck")]_vars

\* C10: a step of the SLA sweep leaves the status, history, assignee, case
\* number and evidence of every case as they were, also when requests on the
\* case run between the sweep's read and its write.
C10_SweepKeepsSubstantiveState ==
  [][slaPc' # slaPc =>
       /\ Len(complaints') = Len(complaints)
       /\ \A i \in Cases :
            /\ Substantive(complaints'[i]) = Substantive(complaints[i])
            /\ Restrict(complaints'[i], DOMAIN complaints'[i] \ SLAFlagPaths)
                 = Restrict(complaints[i], DOMAIN complaints[i] \ SLAFlagPaths)]_vars

\* a sweep has read a case and a request has changed its status since
C10_Witness ==
  /\ slaPc = "fetched"
  /\ \E k \in 1..Len(slaResults) :
       complaints[slaResults[k].complaintId].status # slaResults[k].currentStatus

\* no stored case carries the overdue flag: checkSLACompliance reports no case
\* overdue, and the schema declares neither of the two paths the sweep sets
SLAFlagNeverStored ==
  \A i \in Cases : DOMAIN complaints[i] \cap SLAFlagPaths = {}

\* the cases in one of the four active statuses
ActiveCases ==
  {i \in Cases :
     complaints[i].status \in
       {"Filed", "Assigned", "Under Investigation", "Evidence Collected"}}

CreatedOnDay(d) ==
  {i \in Cases : DateStr(complaints[i].statusHistory[1].date) = d}

\* C13: the k-th case created on a calendar day gets the number made of the
\* day and of k padded with zeros to four digits; the count starts again at 1
\* on the next day.
C13_KthCaseOfDayNumberedK ==
  \A a \in FilerInputs, f \in FileInputs :
    authenticate(a) = 0 =>
      LET k == Cardinality(CreatedOnDay(DateStr(now))) + 1
          after == FileResult(a, f)
      IN /\ Len(after) = Len(complaints) + 1
         /\ Last(after).caseId.date = DateStr(now)
         /\ Last(after).caseId.num = PadStart(Digits(k), 4)

\* C14: no two stored cases share a case number, and two complaints filed at
\* the same time, both having read the same last case number of the day, are
\* both stored.
C14_UniqueAndBothStored ==
  /\ \A i, j \in Cases :
       i # j => complaints[i].caseId # complaints[j].caseId
  /\ \A p \in Procs :
       inflight[p].op = "done" =>
         /\ inflight[p].code = 201
         /\ \E i \in Cases : complaints[i].caseId = inflight[p].caseId

\* s is a prefix of t
IsPrefix(s, t) == Len(s) <= Len(t) /\ SubSeq(t, 1, Len(s)) = s

\* C15: the status history of a case only grows at its end: in every step
\* (status update, assignment, investigation, evidence upload, update and
\* delete, SLA sweep) the history before is a prefix of the history after.
C15_HistoryAppendOnly ==
  [][/\ Len(complaints') >= Len(complaints)
     /\ \A i \in Cases :
          IsPrefix(complaints[i].statusHistory, complaints'[i].statusHistory)]_vars

\* a case with several history entries, an investigation and uploaded evidence
C15_Witness ==
  \E i \in Cases :
    /\ Len(complaints[i].statusHistory) >= 3
    /\ \E k \in 1..Len(complaints[i].evidenceFiles) :
         complaints[i].evidenceFiles[k] = "scan.pdf"
    /\ \E k \in 1..Len(investigations) :
         investigations[k].caseId = complaints[i].caseId

\* the entries of the history after that the history before does not hold
Appended(before, after) ==
  {after.statusHistory[k] :
     k \in (Len(before.statusHistory) + 1)..Len(after.statusHistory)}

\* C16: every history entry appended by a successful status update or
\* assignment has the authenticated user of the request as updatedBy, the
\* target status as status and the note of the request (for an assignment the
\* generated one) as notes.
C16_AppendedEntryRecordsActor ==
  /\ \A a \in ActorInputs, c \in CaseIdInputs, st \in StatusInputs,
        n \in NoteInputs :
       StatusCode(a, c, st) = 200
         => \A e \in Appended(complaints[CaseOf(c)],
                               StatusResult(a, c, st, n)[CaseOf(c)]) :
              e.updatedBy = a /\ e.status = st /\ e.notes = n
  /\ \A a \in ActorInputs, c \in CaseIdInputs, t \in StaffIdInputs :
       AssignCode(a, c, t) = 200
         => \A e \in Appended(complaints[CaseOf(c)],
                               AssignResult(a, c, t)[CaseOf(c)]) :
              /\ e.updatedBy = a
              /\ e.status = "Assigned"
              /\ e.notes = <<"Assigned to", users[t].name, users[t].staffId>>

\* C17: a status update commits the new status and its history entry
\* together or not at all: in every step, a case whose status changes gains a
\* history entry, every entry a case gains carries the case's status after
\* the step, and a status update answered with 500 (its save was rejected)
\* leaves every case as it was; PUT /cases/:id/status obeys the same.
C17_StatusAndEntryCommitTogether ==
  [][/\ \A i \in Cases :
          LET before == complaints[i]
              after == complaints'[i]
          IN /\ after.status # before.status => Appended(before, after) # {}
             /\ \A e \in Appended(before, after) : e.status = after.status
     /\ \A p \in Procs :
          (inflight'[p] # inflight[p] /\ inflight'[p].code = 500)
            => complaints' = complaints
     /\ \A a \in UserIds, i \in ComplaintIdInputs, st \in StatusInputs,
           n \in NoteInputs :
          LET after == PutCaseStatusResult(a, i, st, n)
          IN \/ after = complaints
             \/ /\ after[i].status = st
                /\ Appended(complaints[i], after[i]) # {}
                /\ \A e \in Appended(complaints[i], after[i]) : e.status = st]_vars

\* one status update was answered with 500, another one was committed
C17_Witness ==
  /\ \E p \in Procs : inflight[p].op = "status" /\ inflight[p].code = 500
  /\ \E i \in Cases :
       /\ complaints[i].status \in StatusInputs
       /\ Len(complaints[i].statusHistory) >= 2

\* C18: whenever an investigation is stored with a status value, the parent
\* case has that status after the step and has gained a history entry carrying
\* it: the case's update is persisted whenever the investigation is.
C18_InvestigationStatusReachesCase ==
  [][\A k \in (Len(investigations) + 1)..Len(investigations') :
       LET inv == investigations'[k]
           i == FindOne(complaints, inv.caseId)
       IN inv.statusUpdate # ""
            => /\ complaints'[i].status = inv.statusUpdate
               /\ \E e \in Appended(complaints[i], complaints'[i]) :
                    e.status = inv.statusUpdate]_vars

\* C19: a valid anonymous tip creates a stored case that has no owner, the
\* status 'Filed', a generated case number and one initial history entry.
C19_TipCreatesCase ==
  [][\A p \in CommitProcs :
       SubmitTip(p)
         => /\ Len(complaints') = Len(complaints) + 1
            /\ Last(complaints').userId = Null
            /\ Last(complaints').status = "Filed"
            /\ Has(Last(complaints'), "caseId")
            /\ Len(Last(complaints').statusHistory) = 1]_vars

\* an authenticated account that is neither the owner of the case, nor its
\* assigned staff member, nor an admin
Outsider(actor, complaint) ==
  /\ authenticate(actor) = 0
  /\ complaint.userId # actor
  /\ complaint.assignedStaff # actor
  /\ users[actor].role # "admin"

\* the response refuses the request
Refused(code) == code >= 400

\* C20: every operation on a case (reading it or its investigations, fetching
\* an evidence file, uploading, updating or deleting evidence, updating the
\* status, adding an investigation) is refused, and leaves the case as it was,
\* when the authenticated actor is neither owner, nor assignee, nor admin.
C20_OutsiderDenied ==
  \A a \in UserIds, i \in Cases :
    Outsider(a, complaints[i])
      => LET c == complaints[i].caseId
         IN /\ Refused(ReadCaseCode(a, c))
            /\ \A f \in FilenameInputs : Refused(GetEvidenceFileCode(a, i, f))
            /\ \A f \in EvidenceUploadInputs, d \in BOOLEAN :
                 /\ Refused(UploadEvidenceCode(a, i, f, d))
                 /\ UploadEvidenceResult(a, i, f, d) = complaints
            /\ \A e \in EvidenceIdInputs :
                 /\ Refused(EvidenceItemCode(a, i, e))
                 /\ DeleteEvidenceResult(a, i, e) = complaints
                 /\ UpdateEvidenceResult(a, i, e) = complaints
            /\ \A st \in StatusInputs, n \in NoteInputs :
                 /\ Refused(StatusCode(a, c, st))
                 /\ StatusResult(a, c, st, n) = complaints
            /\ \A st \in InvestigationStatusInputs :
                 /\ Refused(InvestigationCode(a, c, st))
                 /\ InvestigationResult(a, c, st, "t1") = complaints
                 /\ InvestigationsAfter(a, c, st) = investigations

C22_NoLostUpdate ==
  (\A p \in Procs : inflight[p].op # "status")
    => /\ \A p \in Procs :
            inflight[p].op = "updated"
              => \A k \in 1..Len(inflight[p].pushed) :
                   inflight[p].pushed[k]
                     \in Range(complaints[inflight[p].id].statusHistory)
       /\ \A i \in Cases :
            Last(complaints[i].statusHistory).status = complaints[i].status

\* the case carries the overdue flag
Flagged(complaint) ==
  Has(complaint, "slaStatus") /\ complaint.slaStatus = "Overdue"

C24_InvestigationWithoutChangeKeepsCase ==
  \A a \in ActorInputs, c \in CaseIdInputs, st \in InvestigationStatusInputs :
    (/\ InvestigationCode(a, c, st) = 201
     /\ st = "" \/ st = complaints[CaseOf(c)].status)
      => LET after == InvestigationResult(a, c, st, "t1")[CaseOf(c)]
         IN /\ after.status = complaints[CaseOf(c)].status
            /\ after.statusHistory = complaints[CaseOf(c)].statusHistory

\* an investigation carrying the status of its case is stored, and the case
\* still has the one history entry it was created with
C24_Witness ==
  \E k \in 1..Len(investigations), i \in Cases :
    /\ investigations[k].caseId = complaints[i].caseId
    /\ investigations[k].statusUpdate = complaints[i].status
    /\ Len(complaints[i].statusHistory) = 1

\* C25: no transition table is enforced: whatever the status of a case, an
\* update to any of the nine statuses requested by an admin or by the staff
\* member assigned to the case is accepted and sets that status, so a case in
\* a terminal status can be moved back.
C25_AnyTransitionAccepted ==
  \A i \in Cases, a \in UserIds, t \in Statuses, n \in NoteInputs :
    (/\ authenticate(a) = 0
     /\ \/ users[a].role = "admin"
        \/ users[a].role = "staff" /\ complaints[i].assignedStaff = a)
      => /\ StatusCode(a, complaints[i].caseId, t) = 200
         /\ StatusResult(a, complaints[i].caseId, t, n)[i].status = t

\* a case that has been in a terminal status and is in none now
C25_Witness ==
  \E i \in Cases :
    /\ complaints[i].status \notin TerminalStatuses
    /\ \E k \in 1..Len(complaints[i].statusHistory) :
         complaints[i].statusHistory[k].status \in TerminalStatuses

\* C26: deactivating (DELETE /staff/:staffId) a staff member whose assigned
\* cases are all in a terminal status (Completed, Closed or Rejected) is
\* accepted and sets the staff member's status to 'inactive'.
C26_DeactivationWithTerminalCases ==
  \A a \in UserIds, t \in UserIds :
    (/\ Gate(a, {"admin"}) = 0
     /\ users[t].role = "staff"
     /\ \E i \in Cases : complaints[i].assignedStaff = t
     /\ \A i \in Cases :
          complaints[i].assignedStaff = t
            => complaints[i].status \in TerminalStatuses)
      => /\ DeleteStaffCode(a, t) = 200
         /\ DeleteStaffResult(a, t)[t].status = "inactive"

\* C27: however an assignment of a staff member to a non-terminal case and a
\* deactivation of that staff member interleave, once both are done the staff
\* member is not inactive with a non-terminal case assigned: one of the two
\* requests has been refused.
C27_NoInactiveAssignee ==
  (\A p \in Procs : inflight[p].op \notin {"assign", "deactivate"})
    => \A t \in UserIds :
         (users[t].role = "staff" /\ users[t].status = "inactive")
           => ~HasOpenCase(t)

\* C28: authorize lets an authenticated request through exactly when the
\* actor's role is one of the roles the route lists, in the variadic form
\* authorize('staff', 'admin') and in the array form authorize(['staff',
\* 'admin']) alike; so an admin's PUT /cases/:id/status on a stored case is
\* accepted.
C28_AuthorizeBothForms ==
  \A a \in UserIds :
    authenticate(a) = 0
      => /\ authorize({"staff", "admin"}, a)
              <=> users[a].role \in {"staff", "admin"}
         /\ authorize(CasesRouteRoles, a)
              <=> users[a].role \in {"staff", "admin"}
         /\ \A i \in Cases :
              users[a].role = "admin" => PutCaseStatusCode(a, i) = 200

\* C29: when PUT /staff/:staffId is refused with 400 'Invalid staff member',
\* because the target account has not the role 'staff', the stored record of
\* the target account is as it was before the request.
C29_RefusedStaffUpdateKeepsAccount ==
  \A a \in UserIds, t \in UserIds, u \in StaffUpdateInputs :
    UpdateStaffCode(a, t) = 400
      => UpdateStaffResult(a, t, u)[t] = users[t]

\* C30: while a staff member is inactive, every request carrying their token
\* is refused by authenticate with 403 before a handler runs: their status
\* updates and investigations are refused and change nothing, whichever case
\* they name, the cases assigned to them included.
C30_InactiveStaffRefused ==
  \A s \in UserIds :
    (users[s].role = "staff" /\ users[s].status = "inactive")
      => /\ authenticate(s) = 403
         /\ \A c \in CaseIdInputs, st \in Statuses, n \in NoteInputs :
              /\ StatusCode(s, c, st) = 403
              /\ StatusResult(s, c, st, n) = complaints
         /\ \A c \in CaseIdInputs, st \in InvestigationStatusInputs :
              /\ InvestigationCode(s, c, st) = 403
              /\ InvestigationResult(s, c, st, "t1") = complaints
              /\ InvestigationsAfter(s, c, st) = investigations

\* a staff member has been deactivated and still has a case assigned
C30_Witness ==
  \E s \in UserIds, i \in Cases :
    /\ users[s].role = "staff"
    /\ users[s].status = "inactive"
    /\ complaints[i].assignedStaff = s

====
